---- MODULE Spec2Model ----
(***************************************************************************)
(* Model of the long-form URI parser, the long-form URI serializer and the *)
(* resolver of src/proto/uprotocol/uuri.rs.                                *)
(*                                                                         *)
(* A Rust String is a sequence of one-character strings.  Option<T> is a   *)
(* sequence of length at most one: None is <<>>, Some(v) is <<v>>.  A u32  *)
(* is a pair <<hi, lo>> of 16-bit limbs, value hi * 65536 + lo.            *)
(***************************************************************************)
EXTENDS Integers, Sequences, FiniteSets, TLC

VARIABLES pc, text, micro, uri, parsed, out, resolved, reparsed

vars == <<pc, text, micro, uri, parsed, out, resolved, reparsed>>

(***************************************************************************)
(* Option, Result and the u32 type                                         *)
(***************************************************************************)
None == <<>>

Some(v) == <<v>>

Limb == 65536

U32(hi, lo) == <<hi, lo>>

U32_MAX == U32(Limb - 1, Limb - 1)

U32Zero == U32(0, 0)

U32One == U32(0, 1)

DigitChars == <<"0", "1", "2", "3", "4", "5", "6", "7", "8", "9">>

IsDigit(c) == \E i \in 1..10 : DigitChars[i] = c

DigitVal(c) == (CHOOSE i \in 1..10 : DigitChars[i] = c) - 1

\* checked_mul(10) followed by checked_add(d) on a u32; None on overflow
CheckedMulAdd(v, d) ==
  LET lo10 == v[2] * 10 + d
      hi10 == v[1] * 10 + (lo10 \div Limb)
  IN IF hi10 >= Limb THEN None ELSE Some(U32(hi10, lo10 % Limb))

RECURSIVE ParseDigits(_, _)
ParseDigits(s, acc) ==
  IF s = <<>> THEN Some(acc)
  ELSE IF ~IsDigit(Head(s)) THEN None
  ELSE LET next == CheckedMulAdd(acc, DigitVal(Head(s)))
       IN IF next = None THEN None ELSE ParseDigits(Tail(s), next[1])

\* str::parse::<u32>(): an optional leading '+', then one or more decimal
\* digits, failing on any other character, on no digit and on overflow
ParseU32(s) ==
  IF s = <<>> THEN None
  ELSE IF s = <<"+">> \/ s = <<"-">> THEN None
  ELSE IF Head(s) = "+" THEN ParseDigits(Tail(s), U32Zero)
  ELSE ParseDigits(s, U32Zero)

U32Div10(v) ==
  LET rest == (v[1] % 10) * Limb + v[2]
  IN U32(v[1] \div 10, rest \div 10)

U32Mod10(v) == ((v[1] % 10) * Limb + v[2]) % 10

\* u32::to_string(): decimal digits, no sign, no leading zero
RECURSIVE U32ToString(_)
U32ToString(v) ==
  IF v[1] = 0 /\ v[2] < 10 THEN <<DigitChars[v[2] + 1]>>
  ELSE U32ToString(U32Div10(v)) \o <<DigitChars[U32Mod10(v) + 1]>>

(***************************************************************************)
(* String helpers of the standard library                                  *)
(***************************************************************************)
WhiteSpace == {" ", "\t", "\n", "\r"}

\* str::find(c): 1-based index of the first c, 0 when there is none
Find(s, c) ==
  IF \E i \in 1..Len(s) : s[i] = c
  THEN CHOOSE i \in 1..Len(s) : s[i] = c /\ \A j \in 1..(i - 1) : s[j] # c
  ELSE 0

StartsWith(s, p) == Len(s) >= Len(p) /\ SubSeq(s, 1, Len(p)) = p

\* str::replace(from, to) for single characters
RECURSIVE Replace(_, _, _)
Replace(s, from, to) ==
  IF s = <<>> THEN <<>>
  ELSE <<IF Head(s) = from THEN to ELSE Head(s)>> \o Replace(Tail(s), from, to)

RECURSIVE TrimStart(_)
TrimStart(s) ==
  IF s # <<>> /\ Head(s) \in WhiteSpace THEN TrimStart(Tail(s)) ELSE s

RECURSIVE TrimEnd(_)
TrimEnd(s) ==
  IF s # <<>> /\ s[Len(s)] \in WhiteSpace
  THEN TrimEnd(SubSeq(s, 1, Len(s) - 1)) ELSE s

Trim(s) == TrimEnd(TrimStart(s))

\* str::split(c): the pieces between the occurrences of c, at least one
RECURSIVE Split(_, _)
Split(s, c) ==
  LET i == Find(s, c)
  IN IF i = 0 THEN <<s>>
     ELSE <<SubSeq(s, 1, i - 1)>> \o Split(SubSeq(s, i + 1, Len(s)), c)

\* mutant: Regex "/$", a single trailing '/' is removed
StripTrailingSlashes_once(s) ==
  IF s # <<>> /\ s[Len(s)] = "/" THEN SubSeq(s, 1, Len(s) - 1) ELSE s

\* Regex "/+$" replaced by "": every trailing '/' is removed
RECURSIVE StripTrailingSlashes(_)
StripTrailingSlashes(s) ==
  IF s # <<>> /\ s[Len(s)] = "/"
  THEN StripTrailingSlashes(SubSeq(s, 1, Len(s) - 1)) ELSE s

(***************************************************************************)
(* Records: UAuthority, UEntity, UResource, UUri, Result                    *)
(***************************************************************************)
UAuthority(name, number) == [name |-> name, number |-> number]

UEntity(name, id, version_major) ==
  [name |-> name, id |-> id, version_major |-> version_major]

UResource(name, instance, message, id) ==
  [name |-> name, instance |-> instance, message |-> message, id |-> id]

UUri(authority, entity, resource) ==
  [authority |-> authority, entity |-> entity, resource |-> resource]

\* UUri::default()
DefaultUUri == UUri(None, None, None)

Ok(v) == [ok |-> TRUE, val |-> v, err |-> "", raw |-> <<>>]

Err(v, message, raw) == [ok |-> FALSE, val |-> v, err |-> message, raw |-> raw]

ErrEmptyUri == "URI is empty"

ErrMissingEntity == "URI missing UEntity or UResource"

ErrMissingAuthority == "Remote URI missing UAuthority"

ErrInvalidVersion == "Could not parse version number - expected an unsigned integer, got"

ErrEmptyLong == "Long URI is empty"

ErrEmptyMicro == "Micro URI is empty"

ErrMicroNoAuthority == "Micro URI is missing UAuthority"

ErrMicroNoEntity == "Micro URI is missing UEntity"

ErrLongNoResource == "Long URI is missing UResource"

ErrUnresolved == "Could not resolve uri"

ErrMicroDecode == "micro deserialization failed"

(***************************************************************************)
(* Collaborators that live outside uuri.rs                                 *)
(***************************************************************************)
RpcName == <<"r", "p", "c">>

RpcResponse == <<"r", "e", "s", "p", "o", "n", "s", "e">>

\* UResource::from(&str): name ["." instance] ["#" message]; '#' is resolved
\* first, then '.' on what precedes it.  "rpc.response" carries id 0.
UResourceFrom(segment) ==
  LET h == Find(segment, "#")
      name_inst == IF h = 0 THEN segment ELSE SubSeq(segment, 1, h - 1)
      message == IF h = 0 THEN None
                 ELSE Some(SubSeq(segment, h + 1, Len(segment)))
      d == Find(name_inst, ".")
      name == IF d = 0 THEN name_inst ELSE SubSeq(name_inst, 1, d - 1)
      instance == IF d = 0 THEN None
                  ELSE Some(SubSeq(name_inst, d + 1, Len(name_inst)))
      id == IF name = RpcName /\ instance = Some(RpcResponse)
            THEN Some(U32Zero) ELSE None
  IN UResource(name, instance, message, id)

\* UriValidator::is_empty
is_empty(u) == u.authority = None /\ u.entity = None /\ u.resource = None

(***************************************************************************)
(* impl TryFrom<&UUri> for String                                          *)
(***************************************************************************)
build_authority_part_of_uri(authority) ==
  <<"/", "/">> \o (IF authority.name # None THEN authority.name[1] ELSE <<>>)

\* mutant: a version of 0 is left out, as the Java SDK does
build_entity_part_of_uri_omit_zero(entity) ==
  Trim(entity.name) \o <<"/">>
    \o (IF entity.version_major # None /\ entity.version_major # Some(U32Zero)
        THEN U32ToString(entity.version_major[1]) ELSE <<>>)

build_entity_part_of_uri(entity) ==
  Trim(entity.name) \o <<"/">>
    \o (IF entity.version_major # None
        THEN U32ToString(entity.version_major[1]) ELSE <<>>)

\* mutant: the message of the resource is not written
build_resource_part_of_uri_no_message(u) ==
  IF u.resource # None
  THEN LET resource == u.resource[1]
       IN <<"/">> \o resource.name
            \o (IF resource.instance # None
                THEN <<".">> \o resource.instance[1] ELSE <<>>)
  ELSE <<>>

build_resource_part_of_uri(u) ==
  IF u.resource # None
  THEN LET resource == u.resource[1]
       IN <<"/">> \o resource.name
            \o (IF resource.instance # None
                THEN <<".">> \o resource.instance[1] ELSE <<>>)
            \o (IF resource.message # None
                THEN <<"#">> \o resource.message[1] ELSE <<>>)
  ELSE <<>>

\* mutant: an address without entity is refused as empty
try_from_requires_entity(u) ==
  IF u.entity = None THEN Err(<<>>, ErrEmptyUri, <<>>)
  ELSE LET a == IF u.authority # None
                THEN build_authority_part_of_uri(u.authority[1]) ELSE <<>>
           e == build_entity_part_of_uri(u.entity[1])
           output == a \o <<"/">> \o e \o build_resource_part_of_uri(u)
       IN Ok(StripTrailingSlashes(output))

try_from(u) ==
  IF is_empty(u) THEN Err(<<>>, ErrEmptyUri, <<>>)
  ELSE LET a == IF u.authority # None
                THEN build_authority_part_of_uri(u.authority[1]) ELSE <<>>
           e == IF u.entity # None
                THEN build_entity_part_of_uri(u.entity[1]) ELSE <<>>
           output == a \o <<"/">> \o e \o build_resource_part_of_uri(u)
       IN Ok(StripTrailingSlashes(output))

(***************************************************************************)
(* impl FromStr for UUri                                                   *)
(***************************************************************************)
RECURSIVE PopTrailingEmpty(_)
PopTrailingEmpty(result) ==
  IF result # <<>> /\ result[Len(result)] = <<>>
  THEN PopTrailingEmpty(SubSeq(result, 1, Len(result) - 1)) ELSE result

pattern_split(input, pattern) == PopTrailingEmpty(Split(input, pattern))

\* mutant: the ':' that ends the scheme is kept
StripScheme_keep_colon(input) ==
  LET index == Find(input, ":")
  IN IF index # 0 THEN SubSeq(input, index, Len(input))
     ELSE Replace(input, "\\", "/")

\* the text after the first ':', or the text with '\' replaced by '/'
StripScheme(input) ==
  LET index == Find(input, ":")
  IN IF index # 0 THEN SubSeq(input, index + 1, Len(input))
     ELSE Replace(input, "\\", "/")

\* uri_parts[i] with the source's 0-based index
Part(uri_parts, i) == uri_parts[i + 1]

\* mutant: a version that does not parse is taken as absent
ParseEntity_lenient(name, version, authority, resource) ==
  LET ve == IF version # <<>> THEN ParseU32(version) ELSE None
  IN Ok(UUri(authority, Some(UEntity(name, None, ve)), resource))

\* the tail of from_str: version parsing and assembly of the address
ParseEntity(name, version, authority, resource) ==
  IF version # <<>> /\ ParseU32(version) = None
  THEN Err(DefaultUUri, ErrInvalidVersion, version)
  ELSE LET ve == IF version # <<>> THEN ParseU32(version) ELSE None
       IN Ok(UUri(authority, Some(UEntity(name, None, ve)), resource))

\* the local branch: entity name, version and resource are parts 1, 2 and 3
ParseLocal(uri_parts) ==
  LET n == Len(uri_parts)
  IN ParseEntity(Part(uri_parts, 1),
                 IF n > 2 THEN Part(uri_parts, 2) ELSE <<>>,
                 None,
                 IF n > 3 THEN Some(UResourceFrom(Part(uri_parts, 3))) ELSE None)

\* mutant: the blank authority segment is not rejected
ParseRemote_no_blank_check(uri_parts) ==
  LET n == Len(uri_parts)
      authority == IF n > 2
                   THEN Some(UAuthority(Some(Part(uri_parts, 2)), None))
                   ELSE None
  IN IF n > 3
     THEN ParseEntity(Part(uri_parts, 3),
                      IF n > 4 THEN Part(uri_parts, 4) ELSE <<>>,
                      authority,
                      IF n > 5 THEN Some(UResourceFrom(Part(uri_parts, 5)))
                      ELSE None)
     ELSE Ok(UUri(authority, None, None))

\* mutant: the authority name is trimmed
ParseRemote_trim_name(uri_parts) ==
  LET n == Len(uri_parts)
  IN IF n > 2 /\ Trim(Part(uri_parts, 2)) = <<>>
     THEN Err(DefaultUUri, ErrMissingAuthority, <<>>)
     ELSE LET authority == IF n > 2
                           THEN Some(UAuthority(Some(Trim(Part(uri_parts, 2))), None))
                           ELSE None
          IN IF n > 3
             THEN ParseEntity(Part(uri_parts, 3),
                              IF n > 4 THEN Part(uri_parts, 4) ELSE <<>>,
                              authority,
                              IF n > 5
                              THEN Some(UResourceFrom(Part(uri_parts, 5)))
                              ELSE None)
             ELSE Ok(UUri(authority, None, None))

\* mutant: the authority-only return forgets the authority
ParseRemote_drop_authority(uri_parts) ==
  LET n == Len(uri_parts)
  IN IF n > 2 /\ Trim(Part(uri_parts, 2)) = <<>>
     THEN Err(DefaultUUri, ErrMissingAuthority, <<>>)
     ELSE LET authority == IF n > 2
                           THEN Some(UAuthority(Some(Part(uri_parts, 2)), None))
                           ELSE None
          IN IF n > 3
             THEN ParseEntity(Part(uri_parts, 3),
                              IF n > 4 THEN Part(uri_parts, 4) ELSE <<>>,
                              authority,
                              IF n > 5
                              THEN Some(UResourceFrom(Part(uri_parts, 5)))
                              ELSE None)
             ELSE Ok(DefaultUUri)

\* the remote branch: authority, entity name, version and resource are parts
\* 2, 3, 4 and 5; without an entity the address is authority-only
ParseRemote(uri_parts) ==
  LET n == Len(uri_parts)
  IN IF n > 2 /\ Trim(Part(uri_parts, 2)) = <<>>
     THEN Err(DefaultUUri, ErrMissingAuthority, <<>>)
     ELSE LET authority == IF n > 2
                           THEN Some(UAuthority(Some(Part(uri_parts, 2)), None))
                           ELSE None
          IN IF n > 3
             THEN ParseEntity(Part(uri_parts, 3),
                              IF n > 4 THEN Part(uri_parts, 4) ELSE <<>>,
                              authority,
                              IF n > 5
                              THEN Some(UResourceFrom(Part(uri_parts, 5)))
                              ELSE None)
             ELSE Ok(UUri(authority, None, None))

\* mutant: local or remote is decided on the text as given, scheme included
from_str_local_before_strip(input) ==
  IF input = <<>> THEN Err(DefaultUUri, ErrEmptyUri, <<>>)
  ELSE
    LET u == StripScheme(input)
        is_local == ~StartsWith(input, <<"/", "/">>)
        uri_parts == pattern_split(u, "/")
    IN IF Len(uri_parts) < 2 THEN Err(DefaultUUri, ErrMissingEntity, <<>>)
       ELSE IF is_local THEN ParseLocal(uri_parts)
       ELSE ParseRemote(uri_parts)

from_str(input) ==
  IF input = <<>> THEN Err(DefaultUUri, ErrEmptyUri, <<>>)
  ELSE
    LET u == StripScheme(input)
        is_local == ~StartsWith(u, <<"/", "/">>)
        uri_parts == pattern_split(u, "/")
    IN IF Len(uri_parts) < 2 THEN Err(DefaultUUri, ErrMissingEntity, <<>>)
       ELSE IF is_local THEN ParseLocal(uri_parts)
       ELSE ParseRemote(uri_parts)

(***************************************************************************)
(* UUri::build_resolved and the micro codec it drives                      *)
(***************************************************************************)
\* A micro URI is a byte string of length len; the codec, which lives outside
\* uuri.rs, either rejects it or decodes it to the address it encodes.
MicroUri(len, decodes, u) == [len |-> len, decodes |-> decodes, uri |-> u]

\* impl TryFrom<Vec<u8>> for UUri: MicroUriSerializer::deserialize with its
\* error wrapped in a SerializationError
MicroDeserialize(m) ==
  IF m.decodes THEN Ok(m.uri) ELSE Err(DefaultUUri, ErrMicroDecode, <<>>)

\* UAuthority::get_name
get_name(authority) == authority.name

\* UriValidator::is_resolved: every component present carries its name and
\* its numeric id or address
is_resolved(u) ==
  /\ u.authority # None =>
       /\ u.authority[1].name # None
       /\ u.authority[1].name[1] # <<>>
       /\ u.authority[1].number # None
  /\ u.entity # None => u.entity[1].name # <<>> /\ u.entity[1].id # None
  /\ u.resource # None => u.resource[1].name # <<>> /\ u.resource[1].id # None

\* mutant: the micro form's authority name wins when it has one
Merge_micro_name_first(long_uri_parsed, micro_uri_parsed) ==
  LET auth0 == micro_uri_parsed.authority[1]
      ue0 == micro_uri_parsed.entity[1]
      ure0 == long_uri_parsed.resource[1]
      auth == IF long_uri_parsed.authority # None
                 /\ get_name(long_uri_parsed.authority[1]) # None
                 /\ auth0.name = None
              THEN [auth0 EXCEPT !.name = get_name(long_uri_parsed.authority[1])]
              ELSE auth0
      ue == IF long_uri_parsed.entity # None
            THEN [ue0 EXCEPT !.name = long_uri_parsed.entity[1].name]
            ELSE ue0
      ure == IF micro_uri_parsed.resource # None
             THEN [ure0 EXCEPT !.id = micro_uri_parsed.resource[1].id]
             ELSE ure0
  IN UUri(Some(auth), Some(ue), Some(ure))

\* mutant: a version written in the long form replaces the micro form's
Merge_long_version(long_uri_parsed, micro_uri_parsed) ==
  LET auth0 == micro_uri_parsed.authority[1]
      ue0 == micro_uri_parsed.entity[1]
      ure0 == long_uri_parsed.resource[1]
      auth == IF long_uri_parsed.authority # None
                 /\ get_name(long_uri_parsed.authority[1]) # None
              THEN [auth0 EXCEPT !.name = get_name(long_uri_parsed.authority[1])]
              ELSE auth0
      ue == IF long_uri_parsed.entity # None
            THEN [ue0 EXCEPT !.name = long_uri_parsed.entity[1].name,
                             !.version_major =
                               IF long_uri_parsed.entity[1].version_major # None
                               THEN long_uri_parsed.entity[1].version_major
                               ELSE @]
            ELSE ue0
      ure == IF micro_uri_parsed.resource # None
             THEN [ure0 EXCEPT !.id = micro_uri_parsed.resource[1].id]
             ELSE ure0
  IN UUri(Some(auth), Some(ue), Some(ure))

\* the merge of build_resolved, once all three components are at hand
Merge(long_uri_parsed, micro_uri_parsed) ==
  LET auth0 == micro_uri_parsed.authority[1]
      ue0 == micro_uri_parsed.entity[1]
      ure0 == long_uri_parsed.resource[1]
      auth == IF long_uri_parsed.authority # None
                 /\ get_name(long_uri_parsed.authority[1]) # None
              THEN [auth0 EXCEPT !.name = get_name(long_uri_parsed.authority[1])]
              ELSE auth0
      ue == IF long_uri_parsed.entity # None
            THEN [ue0 EXCEPT !.name = long_uri_parsed.entity[1].name]
            ELSE ue0
      ure == IF micro_uri_parsed.resource # None
             THEN [ure0 EXCEPT !.id = micro_uri_parsed.resource[1].id]
             ELSE ure0
  IN UUri(Some(auth), Some(ue), Some(ure))

\* mutant: the merged address is returned without the is_resolved check
Resolve_unchecked(long_uri_parsed, micro_uri_parsed) ==
  IF micro_uri_parsed.authority = None
  THEN Err(DefaultUUri, ErrMicroNoAuthority, <<>>)
  ELSE IF micro_uri_parsed.entity = None
  THEN Err(DefaultUUri, ErrMicroNoEntity, <<>>)
  ELSE IF long_uri_parsed.resource = None
  THEN Err(DefaultUUri, ErrLongNoResource, <<>>)
  ELSE Ok(Merge(long_uri_parsed, micro_uri_parsed))

\* mutant: the long form's resource is looked for before the micro form's
\* authority and entity
Resolve_resource_first(long_uri_parsed, micro_uri_parsed) ==
  IF long_uri_parsed.resource = None
  THEN Err(DefaultUUri, ErrLongNoResource, <<>>)
  ELSE IF micro_uri_parsed.authority = None
  THEN Err(DefaultUUri, ErrMicroNoAuthority, <<>>)
  ELSE IF micro_uri_parsed.entity = None
  THEN Err(DefaultUUri, ErrMicroNoEntity, <<>>)
  ELSE LET merged == Merge(long_uri_parsed, micro_uri_parsed)
       IN IF is_resolved(merged) THEN Ok(merged)
          ELSE Err(DefaultUUri, ErrUnresolved, merged)

\* the checks of build_resolved on the two decoded forms, and the merge
Resolve(long_uri_parsed, micro_uri_parsed) ==
  IF micro_uri_parsed.authority = None
  THEN Err(DefaultUUri, ErrMicroNoAuthority, <<>>)
  ELSE IF micro_uri_parsed.entity = None
  THEN Err(DefaultUUri, ErrMicroNoEntity, <<>>)
  ELSE IF long_uri_parsed.resource = None
  THEN Err(DefaultUUri, ErrLongNoResource, <<>>)
  ELSE LET merged == Merge(long_uri_parsed, micro_uri_parsed)
       IN IF is_resolved(merged) THEN Ok(merged)
          ELSE Err(DefaultUUri, ErrUnresolved, merged)

build_resolved(long_uri, micro_uri) ==
  IF long_uri = <<>> THEN Err(DefaultUUri, ErrEmptyLong, <<>>)
  ELSE IF micro_uri.len = 0 THEN Err(DefaultUUri, ErrEmptyMicro, <<>>)
  ELSE LET long_uri_parsed == from_str(long_uri)
           micro_uri_parsed == MicroDeserialize(micro_uri)
       IN IF ~long_uri_parsed.ok THEN long_uri_parsed
          ELSE IF ~micro_uri_parsed.ok THEN micro_uri_parsed
          ELSE Resolve(long_uri_parsed.val, micro_uri_parsed.val)

(***************************************************************************)
(* Inputs                                                                  *)
(***************************************************************************)
MaxLen == 4

MaxSegs == 6

Alphabet == {"/", ":", "\\", " ", "a", "1", ".", "#"}

\* every string over Alphabet of length at most n
RECURSIVE Strings(_)
Strings(n) ==
  IF n = 0 THEN {<<>>}
  ELSE LET shorter == Strings(n - 1)
       IN shorter \cup {Append(s, c) : s \in {t \in shorter : Len(t) = n - 1},
                                       c \in Alphabet}

CharTexts == Strings(MaxLen)

SegTokens == {<<>>, <<"a">>, <<"1">>, <<":">>, <<"r", ".", "i", "#", "m">>}

\* every text of exactly n segments drawn from SegTokens, joined by '/'
RECURSIVE SegJoin(_)
SegJoin(n) ==
  IF n = 1 THEN SegTokens
  ELSE {s \o <<"/">> \o t : s \in SegJoin(n - 1), t \in SegTokens}

SegTexts == UNION {SegJoin(n) : n \in 1..MaxSegs}

Versions ==
  {<<"0">>,
   <<"1">>,
   <<"0", "0">>,
   <<"0", "1">>,
   <<"+", "1">>,
   <<"+", "0">>,
   <<"+">>,
   <<"-", "1">>,
   <<"6", "5", "5", "3", "5">>,
   <<"6", "5", "5", "3", "6">>,
   <<"4", "2", "9", "4", "9", "6", "7", "2", "9", "0">>,
   <<"4", "2", "9", "4", "9", "6", "7", "2", "9", "5">>,
   <<"0", "4", "2", "9", "4", "9", "6", "7", "2", "9", "5">>,
   <<"4", "2", "9", "4", "9", "6", "7", "2", "9", "6">>,
   <<"4", "2", "9", "4", "9", "6", "7", "3", "0", "0">>,
   <<"5", "0", "0", "0", "0", "0", "0", "0", "0", "0">>,
   <<"9", "9", "9", "9", "9", "9", "9", "9", "9", "9">>,
   <<"4", "2", "9", "4", "9", "6", "7", "2", "9", "5", "0">>,
   <<"x">>,
   <<"1", "x">>,
   <<" ", "1">>}

VersionTexts ==
  {<<"/", "a", "/">> \o v : v \in Versions}
    \cup {<<"/", "/", "A", "/", "a", "/">> \o v \o <<"/", "r">> : v \in Versions}
    \cup {<<"/", "/", " ", "/", "a", "/">> \o v : v \in Versions}

SampleTexts ==
  {<<"/", "b", "o", "d", "y", ".", "a", "c", "c", "e", "s", "s">>,
   <<"/", "b", "o", "d", "y", ".", "a", "c", "c", "e", "s", "s", "/", "1">>,
   <<"/", "b", "o", "d", "y", ".", "a", "c", "c", "e", "s", "s", "/", "/", "d", "o", "o", "r">>,
   <<"/", "b", "o", "d", "y", ".", "a", "c", "c", "e", "s", "s", "/", "1", "/", "d", "o", "o", "r", ".", "f", "r", "o", "n", "t", "_", "l", "e", "f", "t", "#", "D", "o", "o", "r">>,
   <<"/", "e", "x", "a", "m", "p", "l", "e", "a", "p", "p", "/", "/", "r", "p", "c", ".", "r", "e", "s", "p", "o", "n", "s", "e">>,
   <<"/", "/", "V", "C", "U", ".", "M", "Y", "_", "C", "A", "R", "_", "V", "I", "N">>,
   <<"/", "/", "V", "C", "U", ".", "M", "Y", "_", "C", "A", "R", "_", "V", "I", "N", "/", "b", "o", "d", "y", ".", "a", "c", "c", "e", "s", "s">>,
   <<"/", "/", "V", "C", "U", ".", "M", "Y", "_", "C", "A", "R", "_", "V", "I", "N", "/", "b", "o", "d", "y", ".", "a", "c", "c", "e", "s", "s", "/", "1">>,
   <<"/", "/", "V", "C", "U", ".", "M", "Y", "_", "C", "A", "R", "_", "V", "I", "N", "/", "b", "o", "d", "y", ".", "a", "c", "c", "e", "s", "s", "/", "/", "d", "o", "o", "r", ".", "f", "r", "o", "n", "t", "_", "l", "e", "f", "t">>,
   <<"/", "/", "V", "C", "U", ".", "M", "Y", "_", "C", "A", "R", "_", "V", "I", "N", "/", "b", "o", "d", "y", ".", "a", "c", "c", "e", "s", "s", "/", "1", "/", "d", "o", "o", "r", ".", "f", "r", "o", "n", "t", "_", "l", "e", "f", "t", "#", "D", "o", "o", "r">>,
   <<"/", "/", "e", "x", "a", "m", "p", "l", "e", ".", "c", "l", "o", "u", "d", "/", "e", "x", "a", "m", "p", "l", "e", "a", "p", "p", "/", "1", "/", "r", "p", "c", ".", "r", "e", "s", "p", "o", "n", "s", "e">>,
   <<"/", "/", "/", "b", "o", "d", "y", ".", "a", "c", "c", "e", "s", "s">>,
   <<"/", "/", "/", "/", "/", "/", "b", "o", "d", "y", ".", "a", "c", "c", "e", "s", "s">>}

Schemes == {<<>>, <<"u", "p">>, <<"c", "u", "s", "t", "o", "m">>}

SchemeTexts ==
  {p \o <<":">> \o t : p \in Schemes, t \in SampleTexts \cup VersionTexts}

Texts == CharTexts \cup SegTexts \cup VersionTexts \cup SampleTexts \cup SchemeTexts

\* addresses handed to the serializer directly, built by field assignment
UriNames == {<<>>, <<"a">>, <<" ", "a", " ">>, <<"a", "/">>, <<"/">>}

UriVersions == {None, Some(U32Zero), Some(U32One), Some(U32(1, 0)), Some(U32_MAX)}

UriAuthorities ==
  {None, Some(UAuthority(None, None)), Some(UAuthority(Some(<<>>), None)),
   Some(UAuthority(Some(<<"A">>), None)), Some(UAuthority(Some(<<"/">>), Some(1)))}

UriEntities ==
  {None} \cup {Some(UEntity(n, None, v)) : n \in UriNames, v \in UriVersions}

UriQualifiers == {None, Some(<<>>), Some(<<"i">>), Some(<<"/">>)}

UriResources ==
  {None} \cup {Some(UResource(n, i, m, None)) :
                 n \in {<<>>, <<"r">>, <<"/">>},
                 i \in UriQualifiers, m \in UriQualifiers}

Uris ==
  {UUri(a, e, r) : a \in UriAuthorities, e \in UriEntities, r \in UriResources}

\* long forms handed to the resolver
LongTexts ==
  SampleTexts \cup UNION {SegJoin(n) : n \in 1..4}
    \cup {<<>>, <<"/">>, <<"/", "/">>, <<"/", "a", "/", "x", "/", "r">>,
          <<"/", "a", "/", "1", "/", "r", ".", "i", "#", "m">>,
          <<"/", "/", "A", "/", "a", "/", "1", "/", "r">>,
          <<"/", "/", "A", "/", "a", "/", "/", "r", ".", "i">>,
          <<"/", "/", "A", "/", "/", "/", "r">>,
          <<"/", "a", "/", "/", ".", "i">>}

MicroAuthorities ==
  {None, Some(UAuthority(None, Some(7))), Some(UAuthority(None, None)),
   Some(UAuthority(Some(<<"M">>), Some(7)))}

MicroEntities ==
  {None, Some(UEntity(<<>>, Some(U32(0, 3)), None)),
   Some(UEntity(<<>>, Some(U32(0, 3)), Some(U32(0, 2)))),
   Some(UEntity(<<"m">>, None, Some(U32(0, 2))))}

MicroResources ==
  {None, Some(UResource(<<>>, None, None, Some(U32(0, 5)))),
   Some(UResource(<<"q">>, Some(<<"j">>), Some(<<"n">>), Some(U32(0, 5)))),
   Some(UResource(<<>>, None, None, None))}

MaxMicroLen == 1

Micros ==
  {MicroUri(0, FALSE, DefaultUUri)}
    \cup {MicroUri(l, FALSE, DefaultUUri) : l \in 1..MaxMicroLen}
    \cup {MicroUri(8 + l, TRUE, UUri(a, e, r)) :
            l \in 0..MaxMicroLen,
            a \in MicroAuthorities, e \in MicroEntities, r \in MicroResources}

(***************************************************************************)
(* The state machine: one call of from_str, of String::try_from or of      *)
(* build_resolved on an input chosen at the start                          *)
(***************************************************************************)
NoResult == Err(DefaultUUri, "", <<>>)

NoString == Err(<<>>, "", <<>>)

NoMicro == MicroUri(0, FALSE, DefaultUUri)

InitText ==
  /\ pc = "text"
  /\ text \in Texts
  /\ micro = NoMicro
  /\ uri = DefaultUUri

InitUri ==
  /\ pc = "uri"
  /\ text = <<>>
  /\ micro = NoMicro
  /\ uri \in Uris

InitResolve ==
  /\ pc = "resolve"
  /\ text \in LongTexts
  /\ micro \in Micros
  /\ uri = DefaultUUri

Init ==
  /\ InitText \/ InitUri \/ InitResolve
  /\ parsed = NoResult
  /\ out = NoString
  /\ resolved = NoResult
  /\ reparsed = NoResult

\* UUri::from_str(text)
FromStr ==
  /\ pc = "text"
  /\ parsed' = from_str(text)
  /\ uri' = parsed'.val
  /\ pc' = IF parsed'.ok THEN "parsed" ELSE "failed"
  /\ UNCHANGED <<text, micro, out, resolved, reparsed>>

\* String::try_from(&uri), on a parsed or a directly built address
TryFrom ==
  /\ pc \in {"parsed", "uri"}
  /\ out' = try_from(uri)
  /\ pc' = "serialized"
  /\ UNCHANGED <<text, micro, uri, parsed, resolved, reparsed>>

\* UUri::build_resolved(text, micro)
BuildResolved ==
  /\ pc = "resolve"
  /\ resolved' = build_resolved(text, micro)
  /\ pc' = "resolved"
  /\ UNCHANGED <<text, micro, uri, parsed, out, reparsed>>

\* UUri::from_str on the string String::try_from produced
Reparse ==
  /\ pc = "serialized"
  /\ out.ok
  /\ reparsed' = from_str(out.val)
  /\ pc' = "reparsed"
  /\ UNCHANGED <<text, micro, uri, parsed, out, resolved>>

Next == FromStr \/ TryFrom \/ BuildResolved \/ Reparse

Spec == Init /\ [][Next]_vars

(***************************************************************************)
(* Vocabulary of the properties                                            *)
(***************************************************************************)
HasChar(s, c) == \E i \in 1..Len(s) : s[i] = c

CountChar(s, c) == Cardinality({i \in 1..Len(s) : s[i] = c})

AllDigits(s) == \A i \in 1..Len(s) : IsDigit(s[i])

\* a <= b for two digit strings of the same length
RECURSIVE DigitsLeq(_, _)
DigitsLeq(a, b) ==
  IF a = <<>> THEN TRUE
  ELSE IF DigitVal(Head(a)) # DigitVal(Head(b))
  THEN DigitVal(Head(a)) < DigitVal(Head(b))
  ELSE DigitsLeq(Tail(a), Tail(b))

MaxDecimal == <<"4", "2", "9", "4", "9", "6", "7", "2", "9", "5">>

\* the decimal text of an unsigned 32-bit integer: no sign, no leading zero
CanonicalVersion(v) ==
  /\ v # <<>>
  /\ AllDigits(v)
  /\ v = <<"0">> \/ Head(v) # "0"
  /\ Len(v) < Len(MaxDecimal)
       \/ (Len(v) = Len(MaxDecimal) /\ DigitsLeq(v, MaxDecimal))

\* name ["." instance] ["#" message]
ResourceShape(r) ==
  LET h == Find(r, "#")
      name_inst == IF h = 0 THEN r ELSE SubSeq(r, 1, h - 1)
  IN r # <<>> /\ CountChar(r, "#") <= 1 /\ CountChar(name_inst, ".") <= 1

\* entity_name ["/" version] ["/" resource], read off the grammar as written:
\* each bracket is optional on its own, a version is a string of digits
GrammarEntity(r) ==
  /\ Len(r) \in 1..3
  /\ r[1] # <<>>
  /\ Len(r) = 2 => (r[2] # <<>> /\ (AllDigits(r[2]) \/ ResourceShape(r[2])))
  /\ Len(r) = 3 => (AllDigits(r[2]) /\ ResourceShape(r[3]))

\* a text of the long-form grammar without scheme, without '\' (which from_str
\* reads as '/'), without trailing '/' and with a non-blank authority
GrammarConforming(s) ==
  LET segs == Split(s, "/")
      n == Len(segs)
  IN /\ s # <<>>
     /\ ~HasChar(s, ":")
     /\ ~HasChar(s, "\\")
     /\ s[Len(s)] # "/"
     /\ n >= 2
     /\ segs[1] = <<>>
     /\ IF segs[2] # <<>> THEN GrammarEntity(SubSeq(segs, 2, n))
        ELSE /\ n >= 3
             /\ Trim(segs[3]) # <<>>
             /\ n > 3 => GrammarEntity(SubSeq(segs, 4, n))

\* entity_name ["/" [version] ["/" resource]]: the version slot is kept, empty
\* or not, before a resource; the name carries no surrounding whitespace
CanonicalEntity(r) ==
  /\ Len(r) \in 1..3
  /\ r[1] # <<>>
  /\ Trim(r[1]) = r[1]
  /\ Len(r) = 2 => CanonicalVersion(r[2])
  /\ Len(r) = 3 => ((r[2] = <<>> \/ CanonicalVersion(r[2])) /\ ResourceShape(r[3]))

Canonical(s) ==
  LET segs == Split(s, "/")
      n == Len(segs)
  IN /\ s # <<>>
     /\ ~HasChar(s, ":")
     /\ ~HasChar(s, "\\")
     /\ s[Len(s)] # "/"
     /\ n >= 2
     /\ segs[1] = <<>>
     /\ IF segs[2] # <<>> THEN CanonicalEntity(SubSeq(segs, 2, n))
        ELSE /\ n >= 3
             /\ Trim(segs[3]) # <<>>
             /\ n > 3 => CanonicalEntity(SubSeq(segs, 4, n))

\* from_str has been applied to text
Parsed == pc \in {"parsed", "failed"} \/ (pc = "serialized" /\ text # <<>>)

\* from_str and then String::try_from have been applied to text
RoundTripped == pc = "serialized" /\ text # <<>>

(***************************************************************************)
(* C1                                                                      *)
(***************************************************************************)
\* C1 (as stated): for every text s of the long-form grammar with no custom
\* scheme and no trailing slash, from_str(s) succeeds and serializing the
\* result returns exactly s.
C1_RoundTripGrammar ==
  /\ (Parsed /\ GrammarConforming(text)) => parsed.ok
  /\ (RoundTripped /\ GrammarConforming(text)) => out = Ok(text)

\* C1 (amended): for every canonical text s, that is one of the long-form
\* grammar with no ':', no '\', no trailing '/', a non-blank authority, an
\* entity name without surrounding whitespace, a version that is the decimal
\* text of a u32 without sign or leading zero, and a version slot in front of
\* every resource, from_str(s) succeeds and serializing the result returns
\* exactly s.
C1_RoundTrip ==
  /\ (Parsed /\ Canonical(text)) => parsed.ok
  /\ (RoundTripped /\ Canonical(text)) => out = Ok(text)

C1_Witness ==
  /\ RoundTripped
  /\ Canonical(text)
  /\ uri.authority # None
  /\ uri.entity # None
  /\ uri.entity[1].version_major = Some(U32One)
  /\ uri.resource # None
  /\ uri.resource[1].instance # None
  /\ uri.resource[1].message # None
  /\ out = Ok(text)

(***************************************************************************)
(* C2                                                                      *)
(***************************************************************************)
\* build_resolved has been applied to text and micro
Resolved == pc = "resolved"

LongForm == from_str(text).val

MicroForm == MicroDeserialize(micro).val

\* C2: whenever build_resolved succeeds, the result's authority name is the
\* long form's if the long form specified one and the micro form's otherwise,
\* its entity name is the long form's, its resource name, instance and message
\* are the long form's, and its resource id is the micro form's whenever the
\* micro form carries a resource.
C2_MergePrecedence ==
  (Resolved /\ resolved.ok) =>
    LET r == resolved.val
    IN /\ r.authority # None /\ r.entity # None /\ r.resource # None
       /\ r.authority[1].name =
            IF LongForm.authority # None /\ LongForm.authority[1].name # None
            THEN LongForm.authority[1].name
            ELSE MicroForm.authority[1].name
       /\ r.entity[1].name = LongForm.entity[1].name
       /\ r.resource[1].name = LongForm.resource[1].name
       /\ r.resource[1].instance = LongForm.resource[1].instance
       /\ r.resource[1].message = LongForm.resource[1].message
       /\ MicroForm.resource # None =>
            r.resource[1].id = MicroForm.resource[1].id

C2_Witness ==
  /\ Resolved
  /\ resolved.ok
  /\ LongForm.authority # None
  /\ MicroForm.authority[1].name # None
  /\ MicroForm.authority[1].name # LongForm.authority[1].name
  /\ MicroForm.resource # None
  /\ MicroForm.resource[1].name # LongForm.resource[1].name
  /\ resolved.val.authority[1].name = LongForm.authority[1].name
  /\ resolved.val.resource[1].id = MicroForm.resource[1].id

(***************************************************************************)
(* C3                                                                      *)
(***************************************************************************)
\* both forms decode and carry the three components the merge starts from
Mergeable ==
  /\ text # <<>>
  /\ micro.len # 0
  /\ from_str(text).ok
  /\ MicroDeserialize(micro).ok
  /\ MicroForm.authority # None
  /\ MicroForm.entity # None
  /\ LongForm.resource # None

\* C3: every address build_resolved returns satisfies is_resolved, and when
\* the merged address does not satisfy it build_resolved returns the
\* "could not resolve" error and no address.
C3_ResolvedOrError ==
  /\ (Resolved /\ resolved.ok) => is_resolved(resolved.val)
  /\ (Resolved /\ Mergeable /\ ~is_resolved(Merge(LongForm, MicroForm))) =>
       (~resolved.ok /\ resolved.err = ErrUnresolved
          /\ resolved.val = DefaultUUri)

C3_Witness ==
  /\ Resolved
  /\ Mergeable
  /\ ~is_resolved(Merge(LongForm, MicroForm))
  /\ MicroForm.entity[1].id # None
  /\ MicroForm.authority[1].number # None
  /\ resolved.err = ErrUnresolved
  /\ resolved.raw = Merge(LongForm, MicroForm)

(***************************************************************************)
(* C4                                                                      *)
(***************************************************************************)
\* the five conditions of C4 on the parse result l of the long form and the
\* decoding result m of the micro form, in the order of the claim
C4Conds(l, m) ==
  <<text = <<>>,
    micro.len = 0,
    m.ok /\ m.val.authority = None,
    m.ok /\ m.val.entity = None,
    l.ok /\ l.val.resource = None>>

C4Errors ==
  <<ErrEmptyLong, ErrEmptyMicro, ErrMicroNoAuthority, ErrMicroNoEntity,
    ErrLongNoResource>>

C4First(c) == CHOOSE i \in 1..5 : c[i] /\ \A j \in 1..(i - 1) : ~c[j]

C4Count(c) == Cardinality({i \in 1..5 : c[i]})

\* C4 (as stated): build_resolved fails whenever one of the five conditions
\* holds, and an input on which several hold reports the first of them.
C4_FirstErrorStated ==
  Resolved =>
    LET c == C4Conds(from_str(text), MicroDeserialize(micro))
    IN /\ C4Count(c) >= 1 => ~resolved.ok
       /\ C4Count(c) >= 2 => resolved.err = C4Errors[C4First(c)]

\* C4 (amended): build_resolved fails whenever one of the five conditions
\* holds, and an input on which several hold reports the first of them,
\* unless the long form is not empty, the micro form is not empty and the long
\* form does not parse: the parse error is then reported, ahead of the checks
\* on the micro form's authority and entity.
C4_FirstError ==
  Resolved =>
    LET l == from_str(text)
        c == C4Conds(l, MicroDeserialize(micro))
    IN /\ C4Count(c) >= 1 => ~resolved.ok
       /\ (C4Count(c) >= 2 /\ (text = <<>> \/ micro.len = 0 \/ l.ok)) =>
            resolved.err = C4Errors[C4First(c)]
       /\ (text # <<>> /\ micro.len # 0 /\ ~l.ok) => resolved = l

C4_Witness ==
  /\ Resolved
  /\ text # <<>>
  /\ micro.len # 0
  /\ C4Count(C4Conds(from_str(text), MicroDeserialize(micro))) = 2
  /\ MicroForm.authority # None
  /\ MicroForm.entity = None
  /\ LongForm.resource = None
  /\ resolved.err = ErrMicroNoEntity

(***************************************************************************)
(* C5                                                                      *)
(***************************************************************************)
RECURSIVE LeadingSlashes(_)
LeadingSlashes(s) ==
  IF s # <<>> /\ Head(s) = "/" THEN 1 + LeadingSlashes(Tail(s)) ELSE 0

\* the empty text, a text of '/' only, or three or more '/' and then content
SlashCase(s) ==
  \/ s = <<>>
  \/ LeadingSlashes(s) = Len(s)
  \/ (LeadingSlashes(s) >= 3 /\ Len(s) > LeadingSlashes(s))

\* C5 (as stated): from_str fails on the empty text, on every text made of
\* '/' only and on every text that begins with three or more '/' followed by
\* content.
C5_SlashTextsFailStated == (Parsed /\ SlashCase(text)) => ~parsed.ok

\* C5 (amended): from_str fails on the empty text, on every text made of '/'
\* only and on every text without ':' that begins with three or more '/'
\* followed by content.
C5_SlashTextsFail ==
  (Parsed /\ SlashCase(text) /\ ~HasChar(text, ":")) => ~parsed.ok

C5_Witness ==
  /\ Parsed
  /\ LeadingSlashes(text) = 6
  /\ Len(text) > 6
  /\ ~HasChar(text, ":")
  /\ ~parsed.ok
  /\ parsed.err = ErrMissingAuthority

(***************************************************************************)
(* C6                                                                      *)
(***************************************************************************)
\* the text after the leading "//"
AfterSlashes(s) == SubSeq(s, 3, Len(s))

\* "//" followed by a non-blank name without '/' and ':'
AuthorityOnlyText(s) ==
  /\ StartsWith(s, <<"/", "/">>)
  /\ Trim(AfterSlashes(s)) # <<>>
  /\ ~HasChar(AfterSlashes(s), "/")
  /\ ~HasChar(AfterSlashes(s), ":")

AuthorityOnly(name) == UUri(Some(UAuthority(Some(name), None)), None, None)

\* C6 (as stated): for every non-blank name A without '/' and ':',
\* from_str("//" + A) succeeds with an address whose authority has name A and
\* whose entity and resource are absent.
C6_AuthorityOnlyStated ==
  (Parsed /\ AuthorityOnlyText(text)) =>
    parsed = Ok(AuthorityOnly(AfterSlashes(text)))

\* C6 (amended): for every non-blank name A without '/', '\' and ':',
\* from_str("//" + A) succeeds with an address whose authority has name A and
\* whose entity and resource are absent.
C6_AuthorityOnly ==
  (Parsed /\ AuthorityOnlyText(text) /\ ~HasChar(text, "\\")) =>
    parsed = Ok(AuthorityOnly(AfterSlashes(text)))

C6_Witness ==
  /\ Parsed
  /\ AuthorityOnlyText(text)
  /\ Len(AfterSlashes(text)) > 3
  /\ HasChar(text, ".")
  /\ parsed = Ok(AuthorityOnly(AfterSlashes(text)))

(***************************************************************************)
(* C7                                                                      *)
(***************************************************************************)
\* the segment from_str reads the version from, <<>> when there is none
VersionSegment(s) ==
  LET u == StripScheme(s)
      uri_parts == pattern_split(u, "/")
  IN IF ~StartsWith(u, <<"/", "/">>)
     THEN IF Len(uri_parts) > 2 THEN Part(uri_parts, 2) ELSE <<>>
     ELSE IF Len(uri_parts) > 4 THEN Part(uri_parts, 4) ELSE <<>>

\* a remote text whose authority segment is blank
BlankAuthority(s) ==
  LET u == StripScheme(s)
      uri_parts == pattern_split(u, "/")
  IN /\ StartsWith(u, <<"/", "/">>)
     /\ Len(uri_parts) > 2
     /\ Trim(Part(uri_parts, 2)) = <<>>

RECURSIVE StripLeadingZeros(_)
StripLeadingZeros(d) ==
  IF d # <<>> /\ Head(d) = "0" THEN StripLeadingZeros(Tail(d)) ELSE d

\* the text denotes an unsigned 32-bit integer: decimal digits, an optional
\* '+' in front, a value of at most 4294967295
IsU32Text(v) ==
  LET d == IF v # <<>> /\ Head(v) = "+" THEN Tail(v) ELSE v
      z == StripLeadingZeros(d)
  IN /\ d # <<>>
     /\ AllDigits(d)
     /\ Len(z) < Len(MaxDecimal)
          \/ (Len(z) = Len(MaxDecimal) /\ DigitsLeq(z, MaxDecimal))

IsU32(v) == v[1] \in 0..(Limb - 1) /\ v[2] \in 0..(Limb - 1)

VersionMajor(u) == IF u.entity = None THEN None ELSE u.entity[1].version_major

\* what C7 says of a successful parse
VersionKept(v, result) ==
  result.ok =>
    /\ VersionMajor(result.val) = None <=> v = <<>>
    /\ v = <<"0">> => VersionMajor(result.val) = Some(U32Zero)
    /\ v # <<>> => (VersionMajor(result.val) # None
                      /\ IsU32(VersionMajor(result.val)[1]))

InvalidVersion(v, result) ==
  ~result.ok /\ result.err = ErrInvalidVersion /\ result.raw = v

\* C7 (as stated): a successful parse yields version_major None exactly when
\* the version segment is empty or missing, Some(0) for "0" and Some(n) with
\* n a u32 for any other accepted segment; from_str fails with the invalid
\* version error, carrying the raw text, for every non-empty version segment
\* that is not an unsigned 32-bit integer.
C7_VersionStated ==
  Parsed =>
    LET v == VersionSegment(text)
    IN /\ VersionKept(v, parsed)
       /\ (v # <<>> /\ ~IsU32Text(v)) => InvalidVersion(v, parsed)

\* C7 (amended): as stated, except that a remote text with a blank authority
\* segment fails with the missing authority error whatever its version
\* segment is; the invalid version error is reported for every other text
\* whose version segment is non-empty and not an unsigned 32-bit integer.
C7_Version ==
  Parsed =>
    LET v == VersionSegment(text)
    IN /\ VersionKept(v, parsed)
       /\ (v # <<>> /\ ~IsU32Text(v) /\ ~BlankAuthority(text)) =>
            InvalidVersion(v, parsed)
       /\ (v # <<>> /\ BlankAuthority(text)) =>
            (~parsed.ok /\ parsed.err = ErrMissingAuthority)

C7_Witness ==
  /\ Parsed
  /\ VersionSegment(text) = <<"4", "2", "9", "4", "9", "6", "7", "2", "9", "6">>
  /\ ~BlankAuthority(text)
  /\ InvalidVersion(VersionSegment(text), parsed)

(***************************************************************************)
(* C8                                                                      *)
(***************************************************************************)
\* the text in front of the first ':' and the text behind it
SchemeOf(s) == SubSeq(s, 1, Find(s, ":") - 1)

SchemeBody(s) == SubSeq(s, Find(s, ":") + 1, Len(s))

SameOutcome(a, b) == a.ok = b.ok /\ (a.ok => a.val = b.val)

\* C8 (as stated): for every text t without ':' and every prefix p without
\* ':', from_str(p + ":" + t) has the outcome of from_str(t), and for a
\* canonical t serializing the result gives t.
C8_SchemeStrippedStated ==
  /\ (Parsed /\ CountChar(text, ":") = 1) =>
       SameOutcome(parsed, from_str(SchemeBody(text)))
  /\ (RoundTripped /\ CountChar(text, ":") = 1 /\ Canonical(SchemeBody(text))) =>
       out = Ok(SchemeBody(text))

\* C8 (amended): for every text t without ':' and without '\' and every
\* prefix p without ':', from_str(p + ":" + t) has the outcome of from_str(t),
\* and for a canonical t serializing the result gives t.
C8_SchemeStripped ==
  /\ (Parsed /\ CountChar(text, ":") = 1 /\ ~HasChar(SchemeBody(text), "\\")) =>
       SameOutcome(parsed, from_str(SchemeBody(text)))
  /\ (RoundTripped /\ CountChar(text, ":") = 1 /\ Canonical(SchemeBody(text))) =>
       out = Ok(SchemeBody(text))

C8_Witness ==
  /\ RoundTripped
  /\ CountChar(text, ":") = 1
  /\ Len(SchemeOf(text)) > 1
  /\ Canonical(SchemeBody(text))
  /\ uri.authority # None
  /\ uri.resource # None
  /\ parsed = from_str(SchemeBody(text))
  /\ out = Ok(SchemeBody(text))

(***************************************************************************)
(* C9                                                                      *)
(***************************************************************************)
\* String::try_from has been applied to uri
Serialized == pc = "serialized"

EndsWith(s, c) == s # <<>> /\ s[Len(s)] = c

\* C9: whenever String::try_from succeeds, the string it returns does not end
\* with '/'.
C9_NoTrailingSlash == (Serialized /\ out.ok) => ~EndsWith(out.val, "/")

C9_Witness ==
  /\ Serialized
  /\ out.ok
  /\ uri.entity # None
  /\ EndsWith(uri.entity[1].name, "/")
  /\ uri.entity[1].version_major = None
  /\ uri.resource = None
  /\ out.val # <<>>
  /\ ~EndsWith(out.val, "/")

(***************************************************************************)
(* C10                                                                     *)
(***************************************************************************)
\* C10: String::try_from fails, with the "URI is empty" error, exactly when
\* the address has no authority, no entity and no resource; for every other
\* address it returns a string.
C10_EmptyFails ==
  Serialized =>
    /\ ~out.ok <=>
         (uri.authority = None /\ uri.entity = None /\ uri.resource = None)
    /\ ~out.ok => out.err = ErrEmptyUri

C10_Witness ==
  /\ Serialized
  /\ uri.authority = None
  /\ uri.entity = None
  /\ uri.resource = None
  /\ ~out.ok
  /\ out.err = ErrEmptyUri

(***************************************************************************)
(* C11                                                                     *)
(***************************************************************************)
\* C11: an address returned by from_str has an authority exactly when the
\* text, once its scheme is stripped or else its '\' are turned into '/',
\* starts with "//", and that authority has a non-blank name; a text that does
\* not start with "//" never yields an authority.
C11_AuthorityIffRemote ==
  (Parsed /\ parsed.ok) =>
    /\ parsed.val.authority # None <=> StartsWith(StripScheme(text), <<"/", "/">>)
    /\ parsed.val.authority # None =>
         (parsed.val.authority[1].name # None
            /\ Trim(parsed.val.authority[1].name[1]) # <<>>)

C11_Witness ==
  /\ Parsed
  /\ parsed.ok
  /\ HasChar(text, ":")
  /\ ~StartsWith(text, <<"/", "/">>)
  /\ StartsWith(StripScheme(text), <<"/", "/">>)
  /\ parsed.val.authority # None
  /\ parsed.val.entity # None
  /\ Trim(parsed.val.authority[1].name[1]) # <<>>

(***************************************************************************)
(* C12                                                                     *)
(***************************************************************************)
\* the text between the first and the second '/' of s
BetweenSlashes(s) ==
  LET rest == SubSeq(s, Find(s, "/") + 1, Len(s))
  IN IF Find(rest, "/") = 0 THEN rest ELSE SubSeq(rest, 1, Find(rest, "/") - 1)

\* C12: for every text that passes the segment-count check of from_str, part 0
\* of the split text is the empty string in front of the leading '/', and the
\* entity name of a local address is the text between the first and the
\* second '/'.
C12_SegmentZeroEmpty ==
  (Parsed /\ text # <<>>) =>
    LET u == StripScheme(text)
        uri_parts == pattern_split(u, "/")
    IN Len(uri_parts) >= 2 =>
         /\ Part(uri_parts, 0) = <<>>
         /\ (parsed.ok /\ ~StartsWith(u, <<"/", "/">>)) =>
              parsed.val.entity[1].name = BetweenSlashes(u)

(***************************************************************************)
(* C13                                                                     *)
(***************************************************************************)
\* C13: in a successful result of build_resolved the entity's id and
\* version_major are the micro form's (a version written in the long form is
\* never used), the authority's number is the micro form's, and the
\* resource's name, instance and message are the long form's: the authority
\* and the entity are the micro form's but for the name, and the resource is
\* the long form's but for the id.
C13_MergeFrame ==
  (Resolved /\ resolved.ok) =>
    LET r == resolved.val
    IN /\ r.entity[1].id = MicroForm.entity[1].id
       /\ r.entity[1].version_major = MicroForm.entity[1].version_major
       /\ r.authority[1].number = MicroForm.authority[1].number
       /\ r.resource[1].name = LongForm.resource[1].name
       /\ r.resource[1].instance = LongForm.resource[1].instance
       /\ r.resource[1].message = LongForm.resource[1].message
       /\ [r.authority[1] EXCEPT !.name = None]
            = [MicroForm.authority[1] EXCEPT !.name = None]
       /\ [r.entity[1] EXCEPT !.name = <<>>]
            = [MicroForm.entity[1] EXCEPT !.name = <<>>]
       /\ [r.resource[1] EXCEPT !.id = None]
            = [LongForm.resource[1] EXCEPT !.id = None]

C13_Witness ==
  /\ Resolved
  /\ resolved.ok
  /\ LongForm.entity[1].version_major # None
  /\ MicroForm.entity[1].version_major # None
  /\ LongForm.entity[1].version_major # MicroForm.entity[1].version_major
  /\ LongForm.resource[1].instance # None
  /\ MicroForm.resource # None
  /\ MicroForm.resource[1].instance # LongForm.resource[1].instance
  /\ resolved.val.entity[1].version_major = MicroForm.entity[1].version_major
  /\ resolved.val.resource[1].instance = LongForm.resource[1].instance

(***************************************************************************)
(* C14                                                                     *)
(***************************************************************************)
\* C14: every address a successful parse returns is non-empty, has a
\* resource only if it has an entity, and lacks an entity only if it is an
\* authority-only address with its authority present; so serializing the
\* result of a successful parse never fails with the empty-address error.
C14_ParseShape ==
  /\ (Parsed /\ parsed.ok) =>
       /\ ~is_empty(parsed.val)
       /\ parsed.val.resource # None => parsed.val.entity # None
       /\ parsed.val.entity = None =>
            (parsed.val.authority # None /\ parsed.val.resource = None)
  /\ RoundTripped => (out.ok /\ out.err # ErrEmptyUri)

C14_Witness ==
  /\ RoundTripped
  /\ parsed.ok
  /\ uri = parsed.val
  /\ uri.entity = None
  /\ uri.authority # None
  /\ out.ok

(***************************************************************************)
(* C15                                                                     *)
(***************************************************************************)
\* a text was parsed, the address serialized and the string parsed again
Reparsed == pc = "reparsed" /\ text # <<>>

\* C15 as stated: every address a successful parse returns serializes to a
\* non-empty string, and parsing that string succeeds and returns an equal
\* address.
C15_InverseRoundTripStated ==
  /\ RoundTripped => (out.ok /\ out.val # <<>>)
  /\ Reparsed => reparsed = Ok(uri)

\* s holds neither of the two characters from_str rewrites or cuts at
Plain(s) == ~HasChar(s, ":") /\ ~HasChar(s, "\\")

\* the address is written back as it was read: no name holds ':' or '\', the
\* entity name has no surrounding whitespace and is empty only behind an
\* authority, and the resource is not the one of an empty segment
WrittenAsRead(a) ==
  /\ a.authority # None =>
       (a.authority[1].name # None /\ Plain(a.authority[1].name[1]))
  /\ a.entity # None =>
       /\ Plain(a.entity[1].name)
       /\ Trim(a.entity[1].name) = a.entity[1].name
       /\ a.authority = None => a.entity[1].name # <<>>
  /\ a.resource # None =>
       /\ Plain(build_resource_part_of_uri(a))
       /\ build_resource_part_of_uri(a) # <<"/">>

\* C15: for every address a that a successful parse returns and that is
\* written back as it was read (no ':' or '\' in its names, entity name
\* without surrounding whitespace and non-empty unless behind an authority,
\* resource not empty), serialize(a) succeeds with a non-empty string and
\* parse(serialize(a)) succeeds and returns an address equal to a.  An
\* address without authority whose entity name is empty, which from_str
\* returns for texts that do not start with '/', is never read back: parsing
\* its serialization fails or returns an address with an authority.
C15_InverseRoundTrip ==
  /\ (RoundTripped /\ WrittenAsRead(uri)) => (out.ok /\ out.val # <<>>)
  /\ (Reparsed /\ WrittenAsRead(uri)) => reparsed = Ok(uri)
  /\ (Reparsed /\ uri.authority = None /\ uri.entity[1].name = <<>>) =>
       (reparsed.ok => reparsed.val.authority # None)

C15_Witness ==
  /\ Reparsed
  /\ WrittenAsRead(uri)
  /\ uri.authority # None
  /\ uri.entity # None
  /\ uri.entity[1].name # <<>>
  /\ uri.entity[1].version_major # None
  /\ uri.resource # None
  /\ uri.resource[1].message # None
  /\ out.val # text
  /\ reparsed = Ok(uri)

====
